---- MODULE Spec2Model ----
(***************************************************************************)
(* yt_downloader (bin/youtube_downloader_V3.4.py): scoring of search       *)
(* results, the search session with its worker thread and spinner, and the *)
(* sequential download of an expanded list.                                *)
(*                                                                         *)
(* Text is a sequence of one-character strings, so that lower(), the       *)
(* substring tests and the regular expression are computed character by    *)
(* character.  A Python value that may be None is a set with no element    *)
(* (None) or one element (the value).                                      *)
(***************************************************************************)
EXTENDS Integers, Sequences, FiniteSets, TLC

VARIABLES
    al_rgs,        \* get_albums: the release-group-list the service returned
    al_live,       \* get_albums: argument include_live
    al_out,        \* get_albums: returned albums, {} before the call
    pb_bar,        \* ProgressBar: self.bar, {} for None, else {[total, n]}
    pb_closed,     \* ProgressBar: the bars closed so far, as they were at bar.close()
    pb_last,       \* ProgressBar: the argument d of the last hook call, {} before the first
    pb_count,      \* ProgressBar: the number of hook calls so far
    made_dirs,     \* the os.makedirs(outdir, exist_ok=True) calls made, in order
    g_inputs,      \* gather_tasks: args.inputs
    g_search,      \* gather_tasks: args.search
    g_out,         \* gather_tasks: returned tasks, {} before the call
    gv_url,        \* get_video_list: argument url
    gv_info,       \* get_video_list: what ydl.extract_info did
    gv_out,        \* get_video_list: outcome, {} before the call
    c_pc,          \* cli: position of the control thread
    c_output,      \* cli: args.output
    c_tasks,       \* cli: tasks
    c_ti,          \* cli: 1-based index of the current task
    c_started,     \* cli: the tasks whose loop body was entered, in order
    c_url,         \* cli: url of the current task
    c_outdir,      \* cli: outdir of the current task
    c_errors,      \* cli: the "[Erreur]" reports printed, in order
    c_exit,        \* exit status of the process, {} while it runs
    sz_in,         \* sanitize: argument name
    sz_out,        \* sanitize: returned text, {} before the call
    sc_entry,      \* score_entry: argument entry
    sc_boost,      \* score_entry: argument boost_full
    sc_out,        \* score_entry: returned (score, kind), {} before the call
    dl_pc,         \* download_list: position of the control thread
    dl_urls,       \* download_list: argument urls
    dl_is_pl,      \* download_list: argument is_playlist
    dl_i,          \* download_list: loop index i (1-based)
    dl_fails,      \* download_list: fails
    bar_n,         \* download_list: bar.n, advanced by bar.update(1)
    dl_calls,      \* fetcher log: one [url, outcome, reason] per ydl.download call
    s_pc,          \* search_best: position of the control thread
    s_term,        \* search_best: argument term
    want_live,     \* search_best: want_live
    boost_full,    \* search_best: boost_full
    queries,       \* search_best: queries
    s_qi,          \* search_best: qi, the 1-based index of the current variant
    qs,            \* the queue.Queue() of each variant started so far
    threads,       \* the worker thread of each variant started so far
    spin_total,    \* spin.total of the current spinner
    s_k,           \* search_best: k modulo the number of spinner frames
    provider_calls,\* provider log: the query of each extract_info call
    s_got,         \* the message read by q.get() for each variant handled
    s_warn,        \* the errors printed by search_best
    cands,         \* search_best: cands of the last variant handled, sorted
    best_entry,    \* search_best: best_entry
    best_score,    \* search_best: best_score
    best_kind,     \* search_best: best_kind
    s_ret          \* search_best: the returned fin_url, {} before the return

vars == <<al_rgs, al_live, al_out,
          pb_bar, pb_closed, pb_last, pb_count,
          made_dirs,
          g_inputs, g_search, g_out,
          gv_url, gv_info, gv_out, c_pc, c_output, c_tasks, c_ti, c_started,
          c_url, c_outdir, c_errors, c_exit, sz_in, sz_out, sc_entry, sc_boost, sc_out, dl_pc, dl_urls, dl_is_pl, dl_i, dl_fails,
          bar_n, dl_calls, s_pc, s_term, want_live, boost_full, queries, s_qi,
          qs, threads, spin_total, s_k, provider_calls, s_got, s_warn, cands,
          best_entry, best_score, best_kind, s_ret>>

searchVars == <<s_pc, s_term, want_live, boost_full, queries, s_qi, qs, threads,
                spin_total, s_k, provider_calls, s_got, s_warn, cands,
                best_entry, best_score, best_kind, s_ret>>

scoreVars == <<sc_entry, sc_boost, sc_out>>
sanVars == <<sz_in, sz_out>>
gvVars == <<gv_url, gv_info, gv_out>>
cliVars == <<c_pc, c_output, c_tasks, c_ti, c_started, c_url, c_outdir,
             c_errors, c_exit>>
gatherVars == <<g_inputs, g_search, g_out>>
fsVars == <<made_dirs>>
pbVars == <<pb_bar, pb_closed, pb_last, pb_count>>
albVars == <<al_rgs, al_live, al_out>>
dlVars == <<dl_pc, dl_urls, dl_is_pl, dl_i, dl_fails, bar_n, dl_calls>>

-----------------------------------------------------------------------------
(* Text *)

Upper == <<"A", "B", "C", "D", "E", "F", "G", "H", "I", "J", "K", "L", "M",
           "N", "O", "P", "Q", "R", "S", "T", "U", "V", "W", "X", "Y", "Z">>
LowerLetters == <<"a", "b", "c", "d", "e", "f", "g", "h", "i", "j", "k", "l", "m",
           "n", "o", "p", "q", "r", "s", "t", "u", "v", "w", "x", "y", "z">>
Digits == {"0", "1", "2", "3", "4", "5", "6", "7", "8", "9"}

\* str.lower() on one character
LowerChar(c) ==
    IF \E i \in 1..Len(Upper) : Upper[i] = c
    THEN LowerLetters[CHOOSE i \in 1..Len(Upper) : Upper[i] = c]
    ELSE c

\* str.lower()
Lower(s) == [i \in 1..Len(s) |-> LowerChar(s[i])]

\* w in s
Contains(s, w) ==
    \E i \in 1..(Len(s) - Len(w) + 1) : SubSeq(s, i, i + Len(w) - 1) = w

\* s.startswith(w)
StartsWith(s, w) == Len(s) >= Len(w) /\ SubSeq(s, 1, Len(w)) = w

\* x or d, for an optional integer x (None and 0 are both falsy)
OrZero(x) == IF x = {} THEN 0 ELSE CHOOSE v \in x : TRUE

\* x or "", for an optional text x
OrEmpty(x) == IF x = {} THEN <<>> ELSE CHOOSE v \in x : TRUE

W_live == <<"l", "i", "v", "e">>
W_full_album == <<"f", "u", "l", "l", " ", "a", "l", "b", "u", "m">>
W_official == <<"o", "f", "f", "i", "c", "i", "a", "l">>
W_review == <<"r", "e", "v", "i", "e", "w">>
W_cover == <<"c", "o", "v", "e", "r">>
W_http == <<"h", "t", "t", "p">>

-----------------------------------------------------------------------------
(* sanitize *)

\* the characters of the class INVALID_FS
INVALID_FS == {"\\", "/", "*", "?", ":", "\"", "<", ">", "|"}
\* characters str.strip() removes
Whitespace == {" ", "\t", "\n"}
W_output == <<"o", "u", "t", "p", "u", "t">>
MAX_NAME == 100

\* re.sub(INVALID_FS, "_", name)
Sub(name) == [k \in 1..Len(name) |-> IF name[k] \in INVALID_FS THEN "_" ELSE name[k]]

RECURSIVE LStrip(_, _)
LStrip(s, chars) ==
    IF s # <<>> /\ s[1] \in chars THEN LStrip(Tail(s), chars) ELSE s

RECURSIVE RStrip(_, _)
RStrip(s, chars) ==
    IF s # <<>> /\ s[Len(s)] \in chars
    THEN RStrip(SubSeq(s, 1, Len(s) - 1), chars)
    ELSE s

\* str.strip()
Strip(s) == LStrip(RStrip(s, Whitespace), Whitespace)

\* s[:n]
Truncate(s, n) == IF Len(s) > n THEN SubSeq(s, 1, n) ELSE s

\* x or "output"
OrOutput(s) == IF s = <<>> THEN W_output ELSE s

\* Bugs sanitize could have: only "/" replaced; no cut at 100 characters.
sanitize_only_slash(name) ==
    OrOutput(Truncate(RStrip(Strip(
        [k \in 1..Len(name) |-> IF name[k] = "/" THEN "_" ELSE name[k]]),
        {"."}), MAX_NAME))
sanitize_no_cut(name) == OrOutput(RStrip(Strip(Sub(name)), {"."}))

sanitize(name) == OrOutput(Truncate(RStrip(Strip(Sub(name)), {"."}), MAX_NAME))

\* Inputs: every text of up to MaxNameLen characters of SanAlphabet, the same
\* texts after a filler that brings them to the cut at MAX_NAME, and the
\* documented examples.
MaxNameLen == 4
SanAlphabet == {"a", " ", ".", "/", "?"}
Filler == [k \in 1..(MAX_NAME - 2) |-> "b"]
N_Empty == <<>>
N_Questions == <<"?", "?", "?">>
N_Path == <<"A", "/", "B", ":", "C">>
N_Every == <<"\\", "/", "*", "?", ":", "\"", "<", ">", "|">>
N_Tabbed == <<"\t", "x", ".", ".", "\n">>

SanitizeCall ==
    /\ sz_out = {}
    /\ sz_out' = {sanitize(sz_in)}
    /\ UNCHANGED <<sz_in, scoreVars, dlVars, searchVars, gvVars, cliVars, gatherVars, fsVars, pbVars, albVars>>

-----------------------------------------------------------------------------
(* score_entry *)

\* re.search(r".+ - .+\(\d{4}\)", title): one or more characters, " - ", one
\* or more characters, "(", four digits, ")", anywhere in the title.
StructMatch(title) ==
    \E p \in 2..(Len(title) - 2) :
        /\ SubSeq(title, p, p + 2) = <<" ", "-", " ">>
        /\ \E r \in (p + 4)..(Len(title) - 5) :
              /\ title[r] = "("
              /\ \A d \in 1..4 : title[r + d] \in Digits
              /\ title[r + 5] = ")"

BONUS_STRUCT == 300
BONUS_FULL_BOOST == 400
BONUS_FULL == 100
BONUS_OFF == 50
MALUS == -100
VIEWS_PER_POINT == 100000

\* A bug score_entry could have: the malus counted once per matching word.
score_entry_malus_per_word(entry, boost) ==
    LET title == Lower(OrEmpty(entry.title))
        bonus_struct == IF StructMatch(title) THEN BONUS_STRUCT ELSE 0
        bonus_full == IF boost /\ Contains(title, W_full_album)
                      THEN BONUS_FULL_BOOST
                      ELSE IF Contains(title, W_full_album) THEN BONUS_FULL ELSE 0
        bonus_off == IF Contains(title, W_official) THEN BONUS_OFF ELSE 0
        malus == (IF Contains(title, W_review) THEN MALUS ELSE 0)
                 + (IF Contains(title, W_cover) THEN MALUS ELSE 0)
    IN  IF entry.type = "playlist"
        THEN <<OrZero(entry.playlist_count) + bonus_struct + bonus_full
                 + bonus_off + malus, "playlist">>
        ELSE <<(OrZero(entry.view_count) \div VIEWS_PER_POINT) + bonus_struct
                 + bonus_full + bonus_off + malus, "video">>

\* A bug score_entry could have: the boost flag ignored.
score_entry_no_boost(entry, boost) ==
    LET title == Lower(OrEmpty(entry.title))
        bonus_struct == IF StructMatch(title) THEN BONUS_STRUCT ELSE 0
        bonus_full == IF Contains(title, W_full_album) THEN BONUS_FULL ELSE 0
        bonus_off == IF Contains(title, W_official) THEN BONUS_OFF ELSE 0
        malus == IF \E w \in {W_review, W_cover} : Contains(title, w)
                 THEN MALUS ELSE 0
    IN  IF entry.type = "playlist"
        THEN <<OrZero(entry.playlist_count) + bonus_struct + bonus_full
                 + bonus_off + malus, "playlist">>
        ELSE <<(OrZero(entry.view_count) \div VIEWS_PER_POINT) + bonus_struct
                 + bonus_full + bonus_off + malus, "video">>

score_entry(entry, boost) ==
    LET title == Lower(OrEmpty(entry.title))
        bonus_struct == IF StructMatch(title) THEN BONUS_STRUCT ELSE 0
        bonus_full == IF boost /\ Contains(title, W_full_album)
                      THEN BONUS_FULL_BOOST
                      ELSE IF Contains(title, W_full_album) THEN BONUS_FULL ELSE 0
        bonus_off == IF Contains(title, W_official) THEN BONUS_OFF ELSE 0
        malus == IF \E w \in {W_review, W_cover} : Contains(title, w)
                 THEN MALUS ELSE 0
    IN  IF entry.type = "playlist"
        THEN <<OrZero(entry.playlist_count) + bonus_struct + bonus_full
                 + bonus_off + malus, "playlist">>
        ELSE <<(OrZero(entry.view_count) \div VIEWS_PER_POINT) + bonus_struct
                 + bonus_full + bonus_off + malus, "video">>

-----------------------------------------------------------------------------
(* Inputs of score_entry *)

Band == <<"B", "a", "n", "d">>
Album == <<"A", "l", "b", "u", "m">>
Sp == <<" ">>
Dash == <<" ", "-", " ">>
Y1999 == <<"(", "1", "9", "9", "9", ")">>
Y199 == <<"(", "1", "9", "9", ")">>
FullAlbum == <<"F", "u", "l", "l", " ", "A", "l", "b", "u", "m">>
FULLALBUM == <<"F", "U", "L", "L", " ", "A", "L", "B", "U", "M">>
Official == <<"[", "O", "f", "f", "i", "c", "i", "a", "l", "]">>
Review == <<"(", "r", "e", "v", "i", "e", "w", ")">>
Cover == <<"C", "o", "v", "e", "r">>
Live == <<"L", "i", "v", "e">>
Deliver == <<"D", "e", "l", "i", "v", "e", "r">>

T_Plain == Band \o Sp \o Album
T_Struct == Band \o Dash \o Album \o Sp \o Y1999
T_StructFull == T_Struct \o Sp \o FullAlbum
T_StructFullOfficial == T_StructFull \o Sp \o Official
T_StructFullReview == T_StructFull \o Sp \o Review
T_Full == Band \o Sp \o FULLALBUM
T_Official == Band \o Sp \o Official
T_Review == Band \o Sp \o Review
T_Cover == Band \o Sp \o Cover
T_CoverReview == Band \o Sp \o Cover \o Sp \o Review
T_Live == Band \o Sp \o Live
T_LiveStructFull == Band \o Dash \o Live \o Sp \o Y1999 \o Sp \o FullAlbum
T_Deliver == Band \o Sp \o Deliver
T_ThreeDigits == Band \o Dash \o Album \o Sp \o Y199
T_NoLead == Dash \o Album \o Sp \o Y1999
T_NoMiddle == Band \o Dash \o Y1999

ScoreTitles ==
    {T_Plain, T_Struct, T_StructFull, T_StructFullOfficial, T_StructFullReview,
     T_Full, T_Official, T_Review, T_Cover, T_CoverReview, T_Live,
     T_LiveStructFull, T_Deliver, T_ThreeDigits, T_NoLead, T_NoMiddle, <<>>}

\* entry.get("_type"): "playlist" for a collection, "url" for a flat item
EntryTypes == {"playlist", "url"}
PlaylistCounts == {{}, {0}, {12}}
ViewCounts == {{}, {99999}, {250000}, {2000000}}

Id1 == <<"i", "d", "1">>
Id2 == <<"i", "d", "2">>
AbsUrl == W_http \o <<"s", ":", "/", "/", "y", "/", "3">>

ScoreEntries ==
    [type : EntryTypes,
     title : {{}} \cup {{t} : t \in ScoreTitles},
     playlist_count : PlaylistCounts,
     view_count : ViewCounts,
     url : {Id1}]

-----------------------------------------------------------------------------
(* download_list *)

DigitChar(d) == <<"0", "1", "2", "3", "4", "5", "6", "7", "8", "9">>[d + 1]

RECURSIVE Decimal(_)
\* str(n) for n >= 0
Decimal(n) == IF n < 10 THEN <<DigitChar(n)>>
              ELSE Decimal(n \div 10) \o <<DigitChar(n % 10)>>

\* f"{i:03d}": decimal digits, zero-padded on the left to a width of at least 3
Pad3(i) ==
    LET d == Decimal(i)
    IN  IF Len(d) >= 3 THEN d ELSE [k \in 1..(3 - Len(d)) |-> "0"] \o d

TitleExt == <<"%", "(", "t", "i", "t", "l", "e", ")", "s", ".",
              "%", "(", "e", "x", "t", ")", "s">>

\* A bug name_tmpl could have: the ordinal written without padding.
name_tmpl_unpadded(i, is_playlist) ==
    IF ~is_playlist THEN TitleExt ELSE Decimal(i) \o Dash \o TitleExt

\* name_tmpl of item i
name_tmpl(i, is_playlist) ==
    IF ~is_playlist THEN TitleExt ELSE Pad3(i) \o Dash \o TitleExt

W_downloads == <<"d", "o", "w", "n", "l", "o", "a", "d", "s">>

\* download_list(urls, ..., is_playlist, ...) up to the loop: makedirs, the
\* total bar, fails = []
DlCall(urls, outdir, is_playlist) ==
    /\ dl_pc = "idle"
    /\ made_dirs' = Append(made_dirs, outdir)
    /\ dl_urls' = urls
    /\ dl_is_pl' = is_playlist
    /\ dl_i' = 1
    /\ dl_fails' = <<>>
    /\ bar_n' = 0
    /\ dl_calls' = <<>>
    /\ dl_pc' = "loop"
    /\ UNCHANGED <<scoreVars, searchVars, sanVars, gvVars, cliVars, gatherVars, pbVars, albVars>>

\* One iteration up to the call ydl.download([url])
DlFetchBegin ==
    /\ dl_pc = "loop"
    /\ dl_i <= Len(dl_urls)
    /\ dl_calls' = Append(dl_calls,
                          [i |-> dl_i, url |-> dl_urls[dl_i],
                           tmpl |-> name_tmpl(dl_i, dl_is_pl),
                           outcome |-> "running", reason |-> ""])
    /\ dl_pc' = "fetching"
    /\ UNCHANGED <<dl_urls, dl_is_pl, dl_i, dl_fails, bar_n>>
    /\ UNCHANGED <<scoreVars, searchVars, sanVars, gvVars, cliVars, gatherVars, fsVars, pbVars, albVars>>

Ended(outcome, reason) ==
    [dl_calls EXCEPT ![Len(dl_calls)].outcome = outcome,
                     ![Len(dl_calls)].reason = reason]

\* A bug the loop could have: bar.update(1) skipped after a normal return.
DlFetchReturn_no_update ==
    /\ dl_pc = "fetching"
    /\ dl_calls' = Ended("ok", "")
    /\ dl_i' = dl_i + 1
    /\ dl_pc' = "loop"
    /\ UNCHANGED <<dl_urls, dl_is_pl, dl_fails, bar_n>>
    /\ UNCHANGED <<scoreVars, searchVars, sanVars, gvVars, cliVars, gatherVars, fsVars, pbVars, albVars>>

\* ydl.download returns: bar.update(1), next item
DlFetchReturn ==
    /\ dl_pc = "fetching"
    /\ dl_calls' = Ended("ok", "")
    /\ bar_n' = bar_n + 1
    /\ dl_i' = dl_i + 1
    /\ dl_pc' = "loop"
    /\ UNCHANGED <<dl_urls, dl_is_pl, dl_fails>>
    /\ UNCHANGED <<scoreVars, searchVars, sanVars, gvVars, cliVars, gatherVars, fsVars, pbVars, albVars>>

\* A bug the handler could have: the failure ends the loop.
DlFetchDownloadError_abort(reason) ==
    /\ dl_pc = "fetching"
    /\ dl_calls' = Ended("DownloadError", reason)
    /\ dl_fails' = Append(dl_fails, <<dl_urls[dl_i], reason>>)
    /\ bar_n' = bar_n + 1
    /\ dl_i' = Len(dl_urls) + 1
    /\ dl_pc' = "loop"
    /\ UNCHANGED <<dl_urls, dl_is_pl>>
    /\ UNCHANGED <<scoreVars, searchVars, sanVars, gvVars, cliVars, gatherVars, fsVars, pbVars, albVars>>

\* A bug the handler could have: the failed item is fetched again.
DlFetchDownloadError_retry(reason) ==
    /\ dl_pc = "fetching"
    /\ dl_calls' = Ended("DownloadError", reason)
    /\ dl_fails' = Append(dl_fails, <<dl_urls[dl_i], reason>>)
    /\ dl_pc' = "loop"
    /\ UNCHANGED <<dl_urls, dl_is_pl, dl_i, bar_n>>
    /\ UNCHANGED <<scoreVars, searchVars, sanVars, gvVars, cliVars, gatherVars, fsVars, pbVars, albVars>>

\* ydl.download raises DownloadError(reason): except DownloadError appends
\* (url, str(e)) to fails, then bar.update(1), next item
DlFetchDownloadError(reason) ==
    /\ dl_pc = "fetching"
    /\ dl_calls' = Ended("DownloadError", reason)
    /\ dl_fails' = Append(dl_fails, <<dl_urls[dl_i], reason>>)
    /\ bar_n' = bar_n + 1
    /\ dl_i' = dl_i + 1
    /\ dl_pc' = "loop"
    /\ UNCHANGED <<dl_urls, dl_is_pl>>
    /\ UNCHANGED <<scoreVars, searchVars, sanVars, gvVars, cliVars, gatherVars, fsVars, pbVars, albVars>>

\* ydl.download raises an exception that is not a DownloadError: no except
\* clause matches, the exception leaves download_list
DlFetchOtherError(reason) ==
    /\ dl_pc = "fetching"
    /\ dl_calls' = Ended("OtherError", reason)
    /\ dl_pc' = "raised"
    /\ UNCHANGED <<dl_urls, dl_is_pl, dl_i, dl_fails, bar_n>>
    /\ UNCHANGED <<scoreVars, searchVars, sanVars, gvVars, cliVars, gatherVars, fsVars, pbVars, albVars>>

\* The loop is exhausted: bar.close(), the failures are printed
DlFinish ==
    /\ dl_pc = "loop"
    /\ dl_i > Len(dl_urls)
    /\ dl_pc' = "done"
    /\ UNCHANGED <<dl_urls, dl_is_pl, dl_i, dl_fails, bar_n, dl_calls>>
    /\ UNCHANGED <<scoreVars, searchVars, sanVars, gvVars, cliVars, gatherVars, fsVars, pbVars, albVars>>

MaxItems == 5
Urls == {"u1", "u2"}
Reasons == {"geo-blocked", "unavailable"}

RECURSIVE SeqsUpTo(_, _)
SeqsUpTo(S, n) ==
    IF n = 0 THEN {<<>>}
    ELSE LET shorter == SeqsUpTo(S, n - 1)
         IN  shorter \cup {Append(s, x) : s \in {t \in shorter : Len(t) = n - 1}, x \in S}

-----------------------------------------------------------------------------
(* search_best and _search_worker *)

Q_prefix == <<"y", "t", "s", "e", "a", "r", "c", "h", "2", "0", ":">>
Q_suffix == <<" ", "f", "u", "l", "l", " ", "a", "l", "b", "u", "m">>
U_playlist == W_http \o <<"s", ":", "/", "/", "w", "w", "w", ".", "y", "o", "u", "t",
                          "u", "b", "e", ".", "c", "o", "m", "/", "p", "l", "a", "y",
                          "l", "i", "s", "t", "?", "l", "i", "s", "t", "=">>
U_watch == W_http \o <<"s", ":", "/", "/", "w", "w", "w", ".", "y", "o", "u", "t",
                       "u", "b", "e", ".", "c", "o", "m", "/", "w", "a", "t", "c",
                       "h", "?", "v", "=">>
\* frames = "|/-\\": the spinner has four frames, and k is used as k % 4 only
NFrames == 4

(* Inputs of search_best *)

Term_Plain == Band \o Sp \o Album
Term_Live == Band \o Sp \o Album \o Sp \o <<"L", "I", "V", "E">>
Term_Full == Band \o Sp \o Album \o Sp \o FullAlbum
Term_LiveFull == Band \o Sp \o W_live \o Sp \o W_full_album
Term_Oliver == <<"O", "l", "i", "v", "e", "r">>
Terms == {Term_Plain, Term_Live, Term_Full, Term_LiveFull, Term_Oliver}

E_Video == [type |-> "url", title |-> {T_Plain}, playlist_count |-> {},
            view_count |-> {250000}, url |-> Id1]
E_VideoTie == [type |-> "url", title |-> {T_Plain}, playlist_count |-> {},
               view_count |-> {250000}, url |-> Id2]
E_LivePlaylist == [type |-> "playlist", title |-> {T_LiveStructFull},
                   playlist_count |-> {12}, view_count |-> {}, url |-> Id1]
E_Review == [type |-> "url", title |-> {T_Review}, playlist_count |-> {},
             view_count |-> {}, url |-> Id2]
E_Playlist == [type |-> "playlist", title |-> {T_StructFull},
               playlist_count |-> {12}, view_count |-> {}, url |-> AbsUrl]
E_NoTitle == [type |-> "url", title |-> {}, playlist_count |-> {},
              view_count |-> {}, url |-> AbsUrl]
SearchEntries == {E_Video, E_VideoTie, E_LivePlaylist, E_Review, E_Playlist, E_NoTitle}
\* an element of the result list: an entry, or None
ResultElems == {{}} \cup {{e} : e \in SearchEntries}
MaxEntries == 2
\* what the provider can answer to one query
ProviderMsgs ==
    {[status |-> "ok", entries |-> {}, exc |-> ""]}
    \cup {[status |-> "ok", entries |-> {es}, exc |-> ""] :
             es \in SeqsUpTo(ResultElems, MaxEntries)}
    \cup {[status |-> "err", entries |-> {}, exc |-> "timed out"]}

\* The end-to-end scenario: the term, the same term without "full album",
\* and the two records of the provider
Term_Scenario == Band \o Dash \o Album \o Sp \o Y1999 \o Sp \o W_full_album
Term_ScenarioShort == Band \o Dash \o Album \o Sp \o Y1999
ScenarioTerms == {Term_Scenario, Term_ScenarioShort}
E_Collection == [type |-> "playlist", title |-> {T_StructFullOfficial},
                 playlist_count |-> {12}, view_count |-> {}, url |-> Id1]
E_ReviewItem == [type |-> "url", title |-> {T_StructFullReview},
                 playlist_count |-> {}, view_count |-> {2000000}, url |-> Id2]
ScenarioEntries == {E_Collection, E_ReviewItem}
ScenarioMsgs ==
    {[status |-> "ok", entries |-> {es}, exc |-> ""] :
        es \in SeqsUpTo({{}} \cup {{e} : e \in ScenarioEntries}, MaxEntries)}
    \cup {[status |-> "err", entries |-> {}, exc |-> "timed out"]}

AllEntries == SearchEntries \cup ScenarioEntries
\* "live" in (e.get("title") or "").lower(), tabulated over the entries
TitleHasLive == [e \in AllEntries |-> Contains(Lower(OrEmpty(e.title)), W_live)]
\* score_entry(e, boost), tabulated over the entries
ScoreTable == [e \in AllEntries |-> [b \in BOOLEAN |-> score_entry(e, b)]]

\* A bug: the fallback variant is built also when the term asks for a full album.
BuildQueries_always_two(term, boost) ==
    <<Q_prefix \o term, Q_prefix \o term \o Q_suffix>>

\* queries
BuildQueries(term, boost) ==
    IF boost THEN <<Q_prefix \o term>>
    ELSE <<Q_prefix \o term, Q_prefix \o term \o Q_suffix>>

\* A bug: no live filter.
Keeps_no_filter(e, wantLive) == e # {}

\* The entry e of the result list becomes a candidate: it is not falsy, and
\* its title has no "live" unless the term had
Keeps(e, wantLive) ==
    /\ e # {}
    /\ ~(~wantLive /\ TitleHasLive[CHOOSE x \in e : TRUE])

\* url made absolute for its kind
\* A bug the normalization could have: the prefix put before every locator.
Normalize_always_prefix(url, kind) ==
    IF kind = "playlist" THEN U_playlist \o url ELSE U_watch \o url

Normalize(url, kind) ==
    IF kind = "playlist" /\ ~StartsWith(url, W_http) THEN U_playlist \o url
    ELSE IF kind = "video" /\ ~StartsWith(url, W_http) THEN U_watch \o url
    ELSE url

\* the dictionary appended to cands for entry number idx (without "metric"
\* and "dur", which are only printed)
Cand(idx, e, boost) ==
    LET sk == ScoreTable[e][boost]
    IN  [idx |-> idx, entry |-> e, score |-> sk[1], kind |-> sk[2],
         url |-> Normalize(e.url, sk[2])]

\* cands before the sort: the kept entries in the order of the result list
Candidates(entries, wantLive, boost) ==
    LET kept(i) == Keeps(entries[i], wantLive)
        idxs == SelectSeq([i \in 1..Len(entries) |-> i], kept)
    IN  [n \in 1..Len(idxs) |->
            Cand(idxs[n], CHOOSE x \in entries[idxs[n]] : TRUE, boost)]

\* A bug: ties broken towards the later entry.
CandKey_later_first(c) == <<-c.score, -c.idx>>

\* key=lambda c: (-c["score"], c["idx"])
CandKey(c) == <<-c.score, c.idx>>

\* tuple comparison a < b
KeyLess(a, b) == a[1] < b[1] \/ (a[1] = b[1] /\ a[2] < b[2])

\* list.sort(key=...): stable, ascending in the key
RECURSIVE SortCands(_)
SortCands(cs) ==
    IF cs = <<>> THEN <<>>
    ELSE LET rest == SortCands(Tail(cs))
             c == Head(cs)
             \* c, listed first, goes before every element whose key is not smaller
             before(d) == KeyLess(CandKey(d), CandKey(c))
         IN  SelectSeq(rest, before) \o <<c>>
                \o SelectSeq(rest, LAMBDA d : ~before(d))

\* A bug: the loop goes on to the next variant although candidates were found.
FoundCands_never(cs) == FALSE

\* if cands:
FoundCands(cs) == cs # <<>>

\* search_best(term) up to the loop over the variants
SearchCall(term) ==
    /\ s_pc = "idle"
    /\ s_term' = term
    /\ want_live' = Contains(Lower(term), W_live)
    /\ boost_full' = Contains(Lower(term), W_full_album)
    /\ queries' = BuildQueries(term, boost_full')
    /\ best_entry' = {}
    /\ best_score' = -1
    /\ best_kind' = ""
    /\ s_qi' = 1
    /\ s_pc' = "loop"
    /\ UNCHANGED <<qs, threads, spin_total, s_k, provider_calls, s_got, s_warn,
                   cands, s_ret>>
    /\ UNCHANGED <<scoreVars, dlVars, sanVars, gvVars, cliVars, gatherVars, fsVars, pbVars, albVars>>

\* One variant up to the spinner loop: a fresh queue, the worker thread
\* started on it with the variant's query, the spinner created with total=0
StartVariant ==
    /\ s_pc = "loop"
    /\ s_qi <= Len(queries)
    /\ qs' = Append(qs, <<>>)
    /\ threads' = Append(threads, [query |-> queries[s_qi], state |-> "running"])
    /\ spin_total' = 0
    /\ s_k' = 0
    /\ s_pc' = "spin"
    /\ UNCHANGED <<s_term, want_live, boost_full, queries, s_qi, provider_calls,
                   s_got, s_warn, cands, best_entry, best_score, best_kind, s_ret>>
    /\ UNCHANGED <<scoreVars, dlVars, sanVars, gvVars, cliVars, gatherVars, fsVars, pbVars, albVars>>

\* _search_worker of variant j: the provider is asked, and its answer msg
\* (("ok", data) or ("err", exc)) is put on the queue of variant j
SearchWorker(j, msg) ==
    /\ j \in 1..Len(threads)
    /\ threads[j].state = "running"
    /\ provider_calls' = Append(provider_calls, threads[j].query)
    /\ qs' = [qs EXCEPT ![j] = Append(@, msg)]
    /\ threads' = [threads EXCEPT ![j].state = "finished"]
    /\ UNCHANGED <<s_pc, s_term, want_live, boost_full, queries, s_qi, spin_total,
                   s_k, s_got, s_warn, cands, best_entry, best_score, best_kind,
                   s_ret>>
    /\ UNCHANGED <<scoreVars, dlVars, sanVars, gvVars, cliVars, gatherVars, fsVars, pbVars, albVars>>

\* while spin.total == 0 or not q.qsize(): one test of the condition, followed
\* by one turn of the spinner or by spin.close()
Spin ==
    /\ s_pc = "spin"
    /\ IF spin_total = 0 \/ Len(qs[s_qi]) = 0
       THEN s_k' = (s_k + 1) % NFrames /\ s_pc' = "spin"
       ELSE s_k' = s_k /\ s_pc' = "get"
    /\ UNCHANGED <<s_term, want_live, boost_full, queries, s_qi, qs, threads,
                   spin_total, provider_calls, s_got, s_warn, cands, best_entry,
                   best_score, best_kind, s_ret>>
    /\ UNCHANGED <<scoreVars, dlVars, sanVars, gvVars, cliVars, gatherVars, fsVars, pbVars, albVars>>

\* The session with the spinner loop left out: control passes from the start
\* of the worker straight to q.get(), which blocks until the message is there.
SpinnerLeftOut ==
    /\ s_pc = "spin"
    /\ s_k = 0
    /\ s_pc' = "get"
    /\ UNCHANGED <<s_term, want_live, boost_full, queries, s_qi, qs, threads,
                   spin_total, s_k, provider_calls, s_got, s_warn, cands,
                   best_entry, best_score, best_kind, s_ret>>
    /\ UNCHANGED <<scoreVars, dlVars, sanVars, gvVars, cliVars, gatherVars, fsVars, pbVars, albVars>>

\* q.get() returns ("err", exc): the error is printed, continue
HandleErr ==
    /\ s_pc = "get"
    /\ Len(qs[s_qi]) > 0
    /\ Head(qs[s_qi]).status = "err"
    /\ qs' = [qs EXCEPT ![s_qi] = Tail(@)]
    /\ s_got' = Append(s_got, Head(qs[s_qi]))
    /\ s_warn' = Append(s_warn, Head(qs[s_qi]).exc)
    /\ s_qi' = s_qi + 1
    /\ s_pc' = "loop"
    /\ UNCHANGED <<s_term, want_live, boost_full, queries, threads, spin_total, s_k,
                   provider_calls, cands, best_entry, best_score, best_kind, s_ret>>
    /\ UNCHANGED <<scoreVars, dlVars, sanVars, gvVars, cliVars, gatherVars, fsVars, pbVars, albVars>>

\* A bug the scoring could have: the flag taken from the variant's query.
HandleOk_boost_of_query ==
    /\ s_pc = "get"
    /\ Len(qs[s_qi]) > 0
    /\ Head(qs[s_qi]).status = "ok"
    /\ LET data == Head(qs[s_qi])
           entries == OrEmpty(data.entries)
           sorted == SortCands(Candidates(entries, want_live,
                                          Contains(Lower(queries[s_qi]), W_full_album)))
       IN  /\ cands' = sorted
           /\ IF FoundCands(sorted)
              THEN /\ best_entry' = {sorted[1].entry}
                   /\ best_score' = sorted[1].score
                   /\ best_kind' = sorted[1].kind
                   /\ s_qi' = s_qi
                   /\ s_pc' = "after"
              ELSE /\ UNCHANGED <<best_entry, best_score, best_kind>>
                   /\ s_qi' = s_qi + 1
                   /\ s_pc' = "loop"
    /\ qs' = [qs EXCEPT ![s_qi] = Tail(@)]
    /\ s_got' = Append(s_got, Head(qs[s_qi]))
    /\ UNCHANGED <<s_term, want_live, boost_full, queries, threads, spin_total, s_k,
                   provider_calls, s_warn, s_ret>>
    /\ UNCHANGED <<scoreVars, dlVars, sanVars, gvVars, cliVars, gatherVars, fsVars, pbVars, albVars>>

\* q.get() returns ("ok", data): the candidates are built, scored and sorted;
\* with a candidate the best is taken and the loop is left, without one the
\* loop goes on
HandleOk ==
    /\ s_pc = "get"
    /\ Len(qs[s_qi]) > 0
    /\ Head(qs[s_qi]).status = "ok"
    /\ LET data == Head(qs[s_qi])
           entries == OrEmpty(data.entries)
           sorted == SortCands(Candidates(entries, want_live, boost_full))
       IN  /\ cands' = sorted
           /\ IF FoundCands(sorted)
              THEN /\ best_entry' = {sorted[1].entry}
                   /\ best_score' = sorted[1].score
                   /\ best_kind' = sorted[1].kind
                   /\ s_qi' = s_qi
                   /\ s_pc' = "after"
              ELSE /\ UNCHANGED <<best_entry, best_score, best_kind>>
                   /\ s_qi' = s_qi + 1
                   /\ s_pc' = "loop"
    /\ qs' = [qs EXCEPT ![s_qi] = Tail(@)]
    /\ s_got' = Append(s_got, Head(qs[s_qi]))
    /\ UNCHANGED <<s_term, want_live, boost_full, queries, threads, spin_total, s_k,
                   provider_calls, s_warn, s_ret>>
    /\ UNCHANGED <<scoreVars, dlVars, sanVars, gvVars, cliVars, gatherVars, fsVars, pbVars, albVars>>

\* The variants are exhausted
LoopEnd ==
    /\ s_pc = "loop"
    /\ s_qi > Len(queries)
    /\ s_pc' = "after"
    /\ UNCHANGED <<s_term, want_live, boost_full, queries, s_qi, qs, threads,
                   spin_total, s_k, provider_calls, s_got, s_warn, cands,
                   best_entry, best_score, best_kind, s_ret>>
    /\ UNCHANGED <<scoreVars, dlVars, sanVars, gvVars, cliVars, gatherVars, fsVars, pbVars, albVars>>

\* if not best_entry: raise Exception(...)
SearchRaise ==
    /\ s_pc = "after"
    /\ best_entry = {}
    /\ s_pc' = "raised"
    /\ UNCHANGED <<s_term, want_live, boost_full, queries, s_qi, qs, threads,
                   spin_total, s_k, provider_calls, s_got, s_warn, cands,
                   best_entry, best_score, best_kind, s_ret>>
    /\ UNCHANGED <<scoreVars, dlVars, sanVars, gvVars, cliVars, gatherVars, fsVars, pbVars, albVars>>

\* fin_url is made absolute for best_kind and returned
SearchReturn ==
    /\ s_pc = "after"
    /\ best_entry # {}
    /\ s_ret' = {Normalize((CHOOSE e \in best_entry : TRUE).url, best_kind)}
    /\ s_pc' = "returned"
    /\ UNCHANGED <<s_term, want_live, boost_full, queries, s_qi, qs, threads,
                   spin_total, s_k, provider_calls, s_got, s_warn, cands,
                   best_entry, best_score, best_kind>>
    /\ UNCHANGED <<scoreVars, dlVars, sanVars, gvVars, cliVars, gatherVars, fsVars, pbVars, albVars>>

SearchIdle ==
    /\ s_pc = "idle"
    /\ s_term = <<>>
    /\ want_live = FALSE
    /\ boost_full = FALSE
    /\ queries = <<>>
    /\ s_qi = 1
    /\ qs = <<>>
    /\ threads = <<>>
    /\ spin_total = 0
    /\ s_k = 0
    /\ provider_calls = <<>>
    /\ s_got = <<>>
    /\ s_warn = <<>>
    /\ cands = <<>>
    /\ best_entry = {}
    /\ best_score = -1
    /\ best_kind = ""
    /\ s_ret = {}

-----------------------------------------------------------------------------
(* score_entry applied to every entry and flag *)

ScoreIdle == sc_entry = {} /\ sc_boost = FALSE /\ sc_out = {}
SanIdle == sz_in = <<>> /\ sz_out = {}
GvIdle == gv_url = <<>> /\ gv_info = {} /\ gv_out = {}
CliIdle ==
    /\ c_pc = "idle"
    /\ c_output = {}
    /\ c_tasks = <<>>
    /\ c_ti = 1
    /\ c_started = <<>>
    /\ c_url = <<>>
    /\ c_outdir = <<>>
    /\ c_errors = <<>>
    /\ c_exit = {}
DlIdle ==
    /\ dl_pc = "idle"
    /\ dl_urls = <<>>
    /\ dl_is_pl = FALSE
    /\ dl_i = 1
    /\ dl_fails = <<>>
    /\ bar_n = 0
    /\ dl_calls = <<>>

ScoreCall ==
    /\ sc_entry # {}
    /\ sc_out = {}
    /\ sc_out' = {score_entry(CHOOSE e \in sc_entry : TRUE, sc_boost)}
    /\ UNCHANGED <<sc_entry, sc_boost>>
    /\ UNCHANGED <<dlVars, searchVars, sanVars, gvVars, cliVars, gatherVars, fsVars, pbVars, albVars>>

GatherIdle ==
    g_inputs = <<>> /\ g_search = {} /\ g_out = {}

FsIdle ==
    made_dirs = <<>>

PbIdle ==
    pb_bar = {} /\ pb_closed = <<>> /\ pb_last = {} /\ pb_count = 0

AlbIdle ==
    al_rgs = <<>> /\ al_live = FALSE /\ al_out = {}

InitScore ==
    /\ sc_entry \in {{e} : e \in ScoreEntries}
    /\ sc_boost \in BOOLEAN
    /\ sc_out = {}
    /\ DlIdle
    /\ SearchIdle
    /\ SanIdle
    /\ GvIdle
    /\ CliIdle /\ GatherIdle /\ FsIdle /\ PbIdle /\ AlbIdle

NextScore == ScoreCall

SpecScore == InitScore /\ [][NextScore]_vars

(* download_list on every list and every outcome of the fetcher *)

InitDownload == ScoreIdle /\ DlIdle /\ SearchIdle /\ SanIdle /\ GvIdle /\ CliIdle /\ GatherIdle /\ FsIdle /\ PbIdle /\ AlbIdle

NextDownload ==
    \/ \E urls \in SeqsUpTo(Urls, MaxItems), is_playlist \in BOOLEAN :
           DlCall(urls, W_downloads, is_playlist)
    \/ DlFetchBegin
    \/ DlFetchReturn
    \/ \E reason \in Reasons : DlFetchDownloadError(reason)
    \/ \E reason \in Reasons : DlFetchOtherError(reason)
    \/ DlFinish

SpecDownload == InitDownload /\ [][NextDownload]_vars

(* search_best as written: the worker, and the control thread in its spinner
   loop.  The scheduler runs every thread that can run. *)

InitSearch == ScoreIdle /\ DlIdle /\ SearchIdle /\ SanIdle /\ GvIdle /\ CliIdle /\ GatherIdle /\ FsIdle /\ PbIdle /\ AlbIdle

WorkerStep == \E j \in 1..Len(threads) : \E msg \in ProviderMsgs : SearchWorker(j, msg)

NextWait ==
    \/ \E term \in Terms : SearchCall(term)
    \/ StartVariant
    \/ WorkerStep
    \/ Spin

SpecWait ==
    /\ InitSearch
    /\ [][NextWait]_vars
    /\ WF_vars(StartVariant)
    /\ WF_vars(WorkerStep)
    /\ WF_vars(Spin)

(* search_best with the spinner loop either run as written or left out, so
   that the hand-over of the worker's message at q.get() and the code after
   it are covered.  Every behaviour of SpecWait is a behaviour of SpecSearch. *)

NextSearch ==
    \/ NextWait
    \/ SpinnerLeftOut
    \/ HandleErr
    \/ HandleOk
    \/ LoopEnd
    \/ SearchRaise
    \/ SearchReturn

SpecSearch == InitSearch /\ [][NextSearch]_vars

(* get_video_list *)

W_playlist == <<"p", "l", "a", "y", "l", "i", "s", "t">>
W_video == <<"v", "i", "d", "e", "o">>

\* What ydl.extract_info(url, download=False) did: raised, returned None, or
\* returned a dict. _type, entries and title are {} when the key is absent.
InfoRaise == [ret |-> "raise", type |-> {}, entries |-> {}, title |-> {}]
InfoNone == [ret |-> "none", type |-> {}, entries |-> {}, title |-> {}]
Info(type, entries, title) ==
    [ret |-> "info", type |-> type, entries |-> entries, title |-> title]

GvRaised(exc) ==
    [status |-> "raised", exc |-> exc, urls |-> <<>>, is_playlist |-> FALSE,
     title |-> <<>>]
GvReturn(urls, is_playlist, title) ==
    [status |-> "ok", exc |-> "", urls |-> urls, is_playlist |-> is_playlist,
     title |-> title]

\* A bug the loop could have: the member's url appended as it is.
RECURSIVE MemberUrls_raw(_)
MemberUrls_raw(entries) ==
    IF entries = <<>> THEN <<>>
    ELSE LET e == Head(entries)
             rest == MemberUrls_raw(Tail(entries))
         IN  IF e = {} THEN rest
             ELSE <<(CHOOSE m \in e : TRUE).url>> \o rest

\* the loop over info.get("entries", []): a falsy member is skipped, the url of
\* another is kept as it is or completed to a watch URL
RECURSIVE MemberUrls(_)
MemberUrls(entries) ==
    IF entries = <<>> THEN <<>>
    ELSE LET e == Head(entries)
             rest == MemberUrls(Tail(entries))
         IN  IF e = {} THEN rest
             ELSE LET vid == (CHOOSE m \in e : TRUE).url
                  IN  <<IF StartsWith(vid, W_http) THEN vid ELSE U_watch \o vid>>
                      \o rest

OrText(opt, default) ==
    IF opt = {} \/ opt = {<<>>} THEN default ELSE CHOOSE t \in opt : TRUE

get_video_list(url, info) ==
    IF info.ret = "raise" THEN GvRaised("DownloadError")
    ELSE IF info.ret = "none" THEN GvRaised("AttributeError")
    ELSE IF info.type = {"playlist"}
    THEN GvReturn(MemberUrls(IF info.entries = {} THEN <<>>
                             ELSE CHOOSE es \in info.entries : TRUE),
                  TRUE, OrText(info.title, W_playlist))
    ELSE GvReturn(<<url>>, FALSE, OrText(info.title, W_video))

GvCall ==
    /\ gv_info # {}
    /\ gv_out = {}
    /\ gv_out' = {get_video_list(gv_url, CHOOSE i \in gv_info : TRUE)}
    /\ UNCHANGED <<gv_url, gv_info>>
    /\ UNCHANGED <<scoreVars, dlVars, searchVars, sanVars, cliVars, gatherVars, fsVars, pbVars, albVars>>

\* Inputs
MaxMembers == 3
Members == {{}} \cup {{[url |-> u]} : u \in {Id1, Id2, AbsUrl}}
T_Unsafe == <<"A", "/", "B", ":", "C", ".">>
InfoTitles == {{}, {T_Plain}, {T_Unsafe}}
Infos ==
    {InfoRaise, InfoNone}
    \cup {Info({"playlist"}, {es}, t) :
             es \in SeqsUpTo(Members, MaxMembers), t \in InfoTitles}
    \cup {Info({"playlist"}, {}, t) : t \in InfoTitles}
    \cup {Info(ty, {}, t) : ty \in {{}, {"video"}}, t \in InfoTitles}
GvUrls == {AbsUrl, U_watch \o Id2}

InitExpand ==
    /\ gv_url \in GvUrls
    /\ gv_info \in {{i} : i \in Infos}
    /\ gv_out = {}
    /\ ScoreIdle
    /\ DlIdle
    /\ SearchIdle
    /\ SanIdle
    /\ CliIdle /\ GatherIdle /\ FsIdle /\ PbIdle /\ AlbIdle

NextExpand == GvCall

SpecExpand == InitExpand /\ [][NextExpand]_vars

(* cli *)

\* gather_tasks: the kind of a task is told by the start of its text
Task(val) ==
    [kind |-> IF StartsWith(val, W_http) THEN "url" ELSE "search", val |-> val]

CurTask == c_tasks[c_ti]
Report(exc) == Append(c_errors, [val |-> CurTask.val, exc |-> exc])

\* args.help or (not args.inputs and not args.search): print(HELP); sys.exit(0)
CliHelp ==
    /\ c_pc = "idle"
    /\ c_pc' = "exit"
    /\ c_exit' = {0}
    /\ UNCHANGED <<c_output, c_tasks, c_ti, c_started, c_url, c_outdir, c_errors>>
    /\ UNCHANGED <<scoreVars, dlVars, searchVars, sanVars, gvVars, gatherVars, fsVars, pbVars, albVars>>

\* gather_tasks(args) is empty: print("Aucune tâche."); sys.exit(1)
CliNoTask ==
    /\ c_pc = "idle"
    /\ c_pc' = "exit"
    /\ c_exit' = {1}
    /\ UNCHANGED <<c_output, c_tasks, c_ti, c_started, c_url, c_outdir, c_errors>>
    /\ UNCHANGED <<scoreVars, dlVars, searchVars, sanVars, gvVars, gatherVars, fsVars, pbVars, albVars>>

\* gather_tasks(args) gave tasks: the loop over them begins
CliRun(tasks, output) ==
    /\ c_pc = "idle"
    /\ tasks # <<>>
    /\ c_tasks' = tasks
    /\ c_output' = output
    /\ c_ti' = 1
    /\ c_pc' = "loop"
    /\ UNCHANGED <<c_started, c_url, c_outdir, c_errors, c_exit>>
    /\ UNCHANGED <<scoreVars, dlVars, searchVars, sanVars, gvVars, gatherVars, fsVars, pbVars, albVars>>

\* for kind, val in tasks: try: url = val
TaskBegin ==
    /\ c_pc = "loop"
    /\ c_ti <= Len(c_tasks)
    /\ c_started' = Append(c_started, c_ti)
    /\ c_url' = CurTask.val
    /\ c_pc' = IF CurTask.kind = "search" THEN "search" ELSE "expand"
    /\ UNCHANGED <<c_output, c_tasks, c_ti, c_outdir, c_errors, c_exit>>
    /\ UNCHANGED <<scoreVars, dlVars, searchVars, sanVars, gvVars, gatherVars, fsVars, pbVars, albVars>>

\* the frame of a call that has ended is gone
DlReset ==
    /\ dl_pc' = "idle"
    /\ dl_urls' = <<>>
    /\ dl_is_pl' = FALSE
    /\ dl_i' = 1
    /\ dl_fails' = <<>>
    /\ bar_n' = 0
    /\ dl_calls' = <<>>
GvReset == gv_url' = <<>> /\ gv_info' = {} /\ gv_out' = {}

SearchReset ==
    /\ s_pc' = "idle"
    /\ s_term' = <<>>
    /\ want_live' = FALSE
    /\ boost_full' = FALSE
    /\ queries' = <<>>
    /\ s_qi' = 1
    /\ qs' = <<>>
    /\ threads' = <<>>
    /\ spin_total' = 0
    /\ s_k' = 0
    /\ provider_calls' = <<>>
    /\ s_got' = <<>>
    /\ s_warn' = <<>>
    /\ cands' = <<>>
    /\ best_entry' = {}
    /\ best_score' = -1
    /\ best_kind' = ""
    /\ s_ret' = {}

\* url = search_best(val, verbose=args.verbose): the call
CliSearchCall ==
    /\ c_pc = "search"
    /\ SearchCall(CurTask.val)

\* search_best returned a locator
CliSearchReturned ==
    /\ c_pc = "search"
    /\ s_pc = "returned"
    /\ c_url' = (CHOOSE u \in s_ret : TRUE)
    /\ c_pc' = "expand"
    /\ SearchReset
    /\ UNCHANGED <<c_output, c_tasks, c_ti, c_started, c_outdir, c_errors, c_exit>>
    /\ UNCHANGED <<scoreVars, dlVars, sanVars, gvVars, gatherVars, fsVars, pbVars, albVars>>

\* search_best raised RuntimeError: except Exception prints the report
CliSearchRaised ==
    /\ c_pc = "search"
    /\ s_pc = "raised"
    /\ c_errors' = Report("RuntimeError")
    /\ c_ti' = c_ti + 1
    /\ c_url' = <<>>
    /\ c_pc' = "loop"
    /\ SearchReset
    /\ UNCHANGED <<c_output, c_tasks, c_started, c_outdir, c_exit>>
    /\ UNCHANGED <<scoreVars, dlVars, sanVars, gvVars, gatherVars, fsVars, pbVars, albVars>>

\* A bug the resolution could have: the title used as it is.
OutDir_raw_title(output, is_pl, title) ==
    IF output # {} THEN CHOOSE d \in output : TRUE
    ELSE IF is_pl THEN title ELSE W_downloads

\* args.output or (sanitize(title) if is_pl else "downloads")
OutDir(output, is_pl, title) ==
    IF output # {} THEN CHOOSE d \in output : TRUE
    ELSE IF is_pl THEN sanitize(title) ELSE W_downloads

\* urls, is_pl, title = get_video_list(url) returns; outdir is computed
CliExpandOk(info) ==
    /\ c_pc = "expand"
    /\ LET out == get_video_list(c_url, info)
       IN  /\ out.status = "ok"
           /\ gv_url' = c_url
           /\ gv_info' = {info}
           /\ gv_out' = {out}
           /\ c_outdir' = OutDir(c_output, out.is_playlist, out.title)
    /\ c_pc' = "download"
    /\ UNCHANGED <<c_output, c_tasks, c_ti, c_started, c_url, c_errors, c_exit>>
    /\ UNCHANGED <<scoreVars, dlVars, searchVars, sanVars, gatherVars, fsVars, pbVars, albVars>>

\* get_video_list(url) raises: except Exception prints the report
CliExpandRaise(info) ==
    /\ c_pc = "expand"
    /\ LET out == get_video_list(c_url, info)
       IN  /\ out.status = "raised"
           /\ c_errors' = Report(out.exc)
    /\ c_ti' = c_ti + 1
    /\ c_url' = <<>>
    /\ c_pc' = "loop"
    /\ UNCHANGED <<c_output, c_tasks, c_started, c_outdir, c_exit>>
    /\ UNCHANGED <<scoreVars, dlVars, searchVars, sanVars, gvVars, gatherVars, fsVars, pbVars, albVars>>

\* download_list(urls, args.format, outdir, is_pl, ...): the call
CliDownloadCall ==
    /\ c_pc = "download"
    /\ LET out == CHOOSE o \in gv_out : TRUE
       IN  DlCall(out.urls, c_outdir, out.is_playlist)

\* download_list returned: the try block ends, next task
CliTaskDone ==
    /\ c_pc = "download"
    /\ dl_pc = "done"
    /\ c_ti' = c_ti + 1
    /\ c_url' = <<>>
    /\ c_outdir' = <<>>
    /\ c_pc' = "loop"
    /\ DlReset
    /\ GvReset
    /\ UNCHANGED <<c_output, c_tasks, c_started, c_errors, c_exit>>
    /\ UNCHANGED <<scoreVars, searchVars, sanVars, gatherVars, fsVars, pbVars, albVars>>

\* an exception left download_list: except Exception prints the report
CliTaskRaised ==
    /\ c_pc = "download"
    /\ dl_pc = "raised"
    /\ c_errors' = Report(dl_calls[Len(dl_calls)].reason)
    /\ c_ti' = c_ti + 1
    /\ c_url' = <<>>
    /\ c_outdir' = <<>>
    /\ c_pc' = "loop"
    /\ DlReset
    /\ GvReset
    /\ UNCHANGED <<c_output, c_tasks, c_started, c_exit>>
    /\ UNCHANGED <<scoreVars, searchVars, sanVars, gatherVars, fsVars, pbVars, albVars>>

\* the loop is exhausted: cli() returns, the interpreter exits with status 0
CliEnd ==
    /\ c_pc = "loop"
    /\ c_ti > Len(c_tasks)
    /\ c_pc' = "exit"
    /\ c_exit' = {0}
    /\ UNCHANGED <<c_output, c_tasks, c_ti, c_started, c_url, c_outdir, c_errors>>
    /\ UNCHANGED <<scoreVars, dlVars, searchVars, sanVars, gvVars, gatherVars, fsVars, pbVars, albVars>>

\* Inputs
MaxTasks == 2
TaskVals == {AbsUrl, Term_Plain, Term_Full}
Outputs == {{}, {<<"o", "u", "t">>}}
InfoEmpty == Info({"playlist"}, {<<>>}, {T_Unsafe})
InfoAllFalsy == Info({"playlist"}, {<<{}>>}, {T_Plain})
InfoThree == Info({"playlist"}, {<<{[url |-> Id1]}, {}, {[url |-> AbsUrl]}>>},
                  {T_Unsafe})
InfoSingle == Info({"video"}, {}, {T_Plain})
CliInfos == {InfoRaise, InfoNone, InfoEmpty, InfoAllFalsy, InfoThree, InfoSingle}
CliMsgs ==
    {[status |-> "err", entries |-> {}, exc |-> "timed out"],
     [status |-> "ok", entries |-> {}, exc |-> ""],
     [status |-> "ok", entries |-> {<<{E_Playlist}>>}, exc |-> ""]}

CliWorkerStep ==
    \E j \in 1..Len(threads) : \E msg \in CliMsgs : SearchWorker(j, msg)

\* the lists gather_tasks can give: a task per input, its kind told by its
\* text, then the task ("search", args.search) if --search was given
TaskLists ==
    SeqsUpTo({Task(v) : v \in TaskVals}, MaxTasks)
    \cup {Append(ts, [kind |-> "search", val |-> v]) :
             ts \in SeqsUpTo({Task(v) : v \in TaskVals}, MaxTasks - 1),
             v \in {AbsUrl}}

InitCli == ScoreIdle /\ DlIdle /\ SearchIdle /\ SanIdle /\ GvIdle /\ CliIdle /\ GatherIdle /\ FsIdle /\ PbIdle /\ AlbIdle

\* cli as written: search_best does not get past its spinner loop, so
\* CliSearchReturned and CliSearchRaised have no place here
NextCli ==
    \/ CliHelp
    \/ CliNoTask
    \/ \E tasks \in TaskLists : \E output \in Outputs : CliRun(tasks, output)
    \/ TaskBegin
    \/ CliSearchCall
    \/ StartVariant
    \/ CliWorkerStep
    \/ Spin
    \/ \E info \in CliInfos : CliExpandOk(info)
    \/ \E info \in CliInfos : CliExpandRaise(info)
    \/ CliDownloadCall
    \/ DlFetchBegin
    \/ DlFetchReturn
    \/ \E reason \in Reasons : DlFetchDownloadError(reason)
    \/ \E reason \in Reasons : DlFetchOtherError(reason)
    \/ DlFinish
    \/ CliTaskDone
    \/ CliTaskRaised
    \/ CliEnd

\* every step that can be taken is taken in the end: the process runs
SpecCli ==
    /\ InitCli
    /\ [][NextCli]_vars
    /\ WF_vars(NextCli)
    /\ WF_vars(StartVariant)
    /\ WF_vars(CliWorkerStep)
    /\ WF_vars(Spin)

(* gather_tasks *)

\* An element of args.inputs: text is the argument; isfile is what
\* os.path.isfile(inp) answers and lines what the file then holds.
Input(isfile, text, lines) == [isfile |-> isfile, text |-> text, lines |-> lines]

\* for l in f: l = l.strip(); a blank line is skipped, another gives a task
RECURSIVE LineTasks(_)
LineTasks(lines) ==
    IF lines = <<>> THEN <<>>
    ELSE LET l == Strip(Head(lines))
         IN  (IF l = <<>> THEN <<>> ELSE <<Task(l)>>) \o LineTasks(Tail(lines))

RECURSIVE InputTasks(_)
InputTasks(inputs) ==
    IF inputs = <<>> THEN <<>>
    ELSE LET inp == Head(inputs)
         IN  (IF inp.isfile THEN LineTasks(inp.lines) ELSE <<Task(inp.text)>>)
             \o InputTasks(Tail(inputs))

gather_tasks(inputs, search) ==
    InputTasks(inputs)
    \o (IF search = {} \/ search = {<<>>} THEN <<>>
        ELSE <<[kind |-> "search", val |-> CHOOSE t \in search : TRUE]>>)

GatherCall ==
    /\ g_out = {}
    /\ g_out' = {gather_tasks(g_inputs, g_search)}
    /\ UNCHANGED <<g_inputs, g_search>>
    /\ UNCHANGED <<scoreVars, dlVars, searchVars, sanVars, gvVars, cliVars, fsVars, pbVars, albVars>>

\* Inputs: files of up to MaxLines lines, alone or next to a plain argument
MaxLines == 3
L_Blank == <<" ", "\n">>
L_Url == AbsUrl \o <<"\n">>
L_Term == <<" ">> \o Term_Plain \o <<"\n">>
L_Comment == <<"#", " ">> \o Term_Plain \o <<"\n">>
L_CommentUrl == <<"#">> \o AbsUrl
Lines == {L_Blank, L_Url, L_Term, L_Comment, L_CommentUrl}
F_name == <<"l", "i", "s", "t", ".", "t", "x", "t">>
Files == {Input(TRUE, F_name, ls) : ls \in SeqsUpTo(Lines, MaxLines)}
Plain == {Input(FALSE, t, <<>>) : t \in {AbsUrl, Term_Full}}
GatherInputs ==
    {<<>>} \cup {<<f>> : f \in Files} \cup {<<p>> : p \in Plain}
    \cup {<<p, f>> : p \in Plain, f \in Files}
    \cup {<<f, p>> : p \in Plain, f \in Files}

InitGather ==
    /\ g_inputs \in GatherInputs
    /\ g_search \in {{}, {Term_Live}}
    /\ g_out = {}
    /\ ScoreIdle /\ DlIdle /\ SearchIdle /\ SanIdle /\ GvIdle /\ CliIdle /\ FsIdle /\ PbIdle /\ AlbIdle

NextGather == GatherCall

SpecGather == InitGather /\ [][NextGather]_vars

(* ProgressBar *)

\* x or y or 0 over two values that may be None (or 0)
OrOr0(a, b) ==
    IF a # {} /\ a # {0} THEN CHOOSE n \in a : TRUE
    ELSE IF b # {} /\ b # {0} THEN CHOOSE n \in b : TRUE
    ELSE 0

Bar(total, n) == [total |-> total, n |-> n]
TheBar == CHOOSE b \in pb_bar : TRUE

\* A bug hook could have: the bar closed as it stands.
AfterHook_not_forced(d) ==
    IF d.status = "downloading"
    THEN LET tot == OrOr0(d.total_bytes, d.total_bytes_estimate)
             done == d.downloaded_bytes
             bar == IF pb_bar = {} /\ tot # 0 THEN {Bar(tot, 0)} ELSE pb_bar
         IN  [bar |-> {Bar(b.total, done) : b \in bar}, closed |-> pb_closed]
    ELSE IF d.status = "finished" /\ pb_bar # {}
    THEN [bar |-> {}, closed |-> Append(pb_closed, TheBar)]
    ELSE [bar |-> pb_bar, closed |-> pb_closed]

\* the bar and the closed bars after hook(d)
AfterHook(d) ==
    IF d.status = "downloading"
    THEN LET tot == OrOr0(d.total_bytes, d.total_bytes_estimate)
             done == d.downloaded_bytes
             bar == IF pb_bar = {} /\ tot # 0 THEN {Bar(tot, 0)} ELSE pb_bar
         IN  [bar |-> {Bar(b.total, done) : b \in bar}, closed |-> pb_closed]
    ELSE IF d.status = "finished" /\ pb_bar # {}
    THEN [bar |-> {}, closed |-> Append(pb_closed, Bar(TheBar.total, TheBar.total))]
    ELSE [bar |-> pb_bar, closed |-> pb_closed]

Hook(d) ==
    /\ pb_bar' = AfterHook(d).bar
    /\ pb_closed' = AfterHook(d).closed
    /\ pb_last' = {d}
    /\ pb_count' = pb_count + 1
    /\ UNCHANGED <<scoreVars, dlVars, searchVars, sanVars, gvVars, cliVars, gatherVars, fsVars, albVars>>

\* Inputs: ticks of the three statuses, totals known, unknown or 0, amounts
\* below and above the total; at most MaxTicks calls of one tracker
MaxTicks == 4
Tick(status, total, estimate, done) ==
    [status |-> status, total_bytes |-> total, total_bytes_estimate |-> estimate,
     downloaded_bytes |-> done]
Ticks ==
    {Tick("downloading", t, e, n) : t \in {{}, {0}, {100}}, e \in {{}, {150}},
                                    n \in {0, 50, 250}}
    \cup {Tick("finished", {100}, {}, n) : n \in {50, 100}}
    \cup {Tick("error", {}, {}, 0)}

InitProgress ==
    /\ PbIdle
    /\ ScoreIdle /\ DlIdle /\ SearchIdle /\ SanIdle /\ GvIdle /\ CliIdle /\ GatherIdle /\ FsIdle /\ AlbIdle

NextProgress == \E d \in Ticks : pb_count < MaxTicks /\ Hook(d)

SpecProgress == InitProgress /\ [][NextProgress]_vars

(* get_albums (bin/album_list_retreiver_V1.3.py) *)

\* the characters of the texts compared here, in code point order
CodeOrder == <<" ", "-", "0", "1", "2", "3", "4", "5", "6", "7", "8", "9">>
             \o Upper \o LowerLetters
Code(c) == CHOOSE i \in 1..Len(CodeOrder) : CodeOrder[i] = c

\* a < b on str
RECURSIVE TextLess(_, _)
TextLess(a, b) ==
    IF b = <<>> THEN FALSE
    ELSE IF a = <<>> THEN TRUE
    ELSE IF a[1] # b[1] THEN Code(a[1]) < Code(b[1])
    ELSE TextLess(Tail(a), Tail(b))

W_9999 == <<"9", "9", "9", "9">>
\* key=lambda d: (d["year"] or "9999", d["title"].lower())
AlbumKey(d) == <<IF d.year = <<>> THEN W_9999 ELSE d.year, Lower(d.title)>>
AlbumKeyLess(a, b) == TextLess(a[1], b[1]) \/ (a[1] = b[1] /\ TextLess(a[2], b[2]))

\* albums.sort(key=...): stable, ascending in the key
RECURSIVE SortAlbums(_)
SortAlbums(ds) ==
    IF ds = <<>> THEN <<>>
    ELSE LET rest == SortAlbums(Tail(ds))
             d == Head(ds)
             before(x) == AlbumKeyLess(AlbumKey(x), AlbumKey(d))
         IN  SelectSeq(rest, before) \o <<d>> \o SelectSeq(rest, LAMBDA x : ~before(x))

\* "live" in [t.lower() for t in rg.get("secondary-type-list", [])]
IsLive(rg) == \E k \in 1..Len(rg.secondary) : Lower(rg.secondary[k]) = W_live

\* the loop over rgs: seen is the set of lower-cased titles met so far
RECURSIVE AlbumLoop(_, _, _)
AlbumLoop(rgs, seen, include_live) ==
    IF rgs = <<>> THEN <<>>
    ELSE LET rg == Head(rgs)
             low == Lower(rg.title)
         IN  IF low \in seen THEN AlbumLoop(Tail(rgs), seen, include_live)
             ELSE IF IsLive(rg) /\ ~include_live
             THEN AlbumLoop(Tail(rgs), seen \cup {low}, include_live)
             ELSE <<[title |-> rg.title, year |-> Truncate(rg.date, 4),
                     rgid |-> rg.id]>>
                  \o AlbumLoop(Tail(rgs), seen \cup {low}, include_live)

get_albums(rgs, include_live) == SortAlbums(AlbumLoop(rgs, {}, include_live))

AlbumsCall ==
    /\ al_out = {}
    /\ al_out' = {get_albums(al_rgs, al_live)}
    /\ UNCHANGED <<al_rgs, al_live>>
    /\ UNCHANGED <<scoreVars, dlVars, searchVars, sanVars, gvVars, cliVars, gatherVars, fsVars, pbVars>>

\* Inputs: lists of up to MaxGroups release groups
MaxGroups == 3
A_X == <<"X">>
A_x == <<"x">>
A_Y == <<"Y">>
D_1999 == <<"1", "9", "9", "9", "-", "0", "5">>
RG(title, secondary, date, id) ==
    [title |-> title, secondary |-> secondary, date |-> date, id |-> id]
ReleaseGroups ==
    {RG(t, s, d, <<"r">> \o t) : t \in {A_X, A_x, A_Y}, s \in {<<>>, <<Live>>},
                                d \in {<<>>, D_1999}}

InitAlbums ==
    /\ al_rgs \in SeqsUpTo(ReleaseGroups, MaxGroups)
    /\ al_live \in BOOLEAN
    /\ al_out = {}
    /\ ScoreIdle /\ DlIdle /\ SearchIdle /\ SanIdle /\ GvIdle /\ CliIdle /\ GatherIdle /\ FsIdle /\ PbIdle

NextAlbums == AlbumsCall

SpecAlbums == InitAlbums /\ [][NextAlbums]_vars

(* sanitize on its own *)

ShortNames == SeqsUpTo(SanAlphabet, MaxNameLen)
SanNames ==
    ShortNames \cup {Filler \o t : t \in ShortNames}
    \cup {N_Empty, N_Questions, N_Path, N_Every, N_Tabbed, W_output}

InitSanitize ==
    /\ sz_in \in SanNames
    /\ sz_out = {}
    /\ ScoreIdle
    /\ DlIdle
    /\ SearchIdle
    /\ GvIdle
    /\ CliIdle /\ GatherIdle /\ FsIdle /\ PbIdle /\ AlbIdle

NextSanitize == SanitizeCall

SpecSanitize == InitSanitize /\ [][NextSanitize]_vars

(* search_best on the end-to-end scenario: the scenario's terms and records,
   with the spinner loop run as written or left out as in SpecSearch *)

ScenarioWorkerStep ==
    \E j \in 1..Len(threads) : \E msg \in ScenarioMsgs : SearchWorker(j, msg)

NextScenario ==
    \/ \E term \in ScenarioTerms : SearchCall(term)
    \/ StartVariant
    \/ ScenarioWorkerStep
    \/ Spin
    \/ SpinnerLeftOut
    \/ HandleErr
    \/ HandleOk
    \/ LoopEnd
    \/ SearchRaise
    \/ SearchReturn

SpecScenario == InitSearch /\ [][NextScenario]_vars

-----------------------------------------------------------------------------
(* Properties of download_list *)

Outcomes(calls) == [j \in 1..Len(calls) |-> calls[j].outcome]
IsDownloadError(c) == c.outcome = "DownloadError"
IsOk(c) == c.outcome = "ok"
\* the (locator, reasonText) pairs of the calls that raised DownloadError
RaisedPairs(calls) ==
    LET f == SelectSeq(calls, IsDownloadError)
    IN  [k \in 1..Len(f) |-> <<f[k].url, f[k].reason>>]
attempted == bar_n
succeeded == Len(SelectSeq(dl_calls, IsOk))

C2_NoExceptionEscapes == dl_pc # "raised"

\* C16: the items of a run are fetched in list order, one at a time and at
\* most once each: call j is on item j, a call begins only when every call
\* before it has ended, a failed item is not fetched again, and a run that
\* is done has fetched every item exactly once.
C16_InOrderOnce ==
    /\ Len(dl_calls) <= Len(dl_urls)
    /\ \A j \in 1..Len(dl_calls) :
          /\ dl_calls[j].i = j
          /\ dl_calls[j].url = dl_urls[j]
          /\ j < Len(dl_calls) => dl_calls[j].outcome # "running"
    /\ dl_pc = "fetching" <=>
          (dl_calls # <<>> /\ dl_calls[Len(dl_calls)].outcome = "running")
    /\ dl_pc = "done" => Len(dl_calls) = Len(dl_urls)

\* C16 witness: a run of three items, the second of which failed, is done
\* after three calls.
C16_Witness ==
    /\ dl_pc = "done"
    /\ Outcomes(dl_calls) = <<"ok", "DownloadError", "ok">>
    /\ dl_urls = <<"u1", "u1", "u2">>

\* the ordinal prefixes of the positions up to MaxOrdinal
MaxOrdinal == 1100
PrefixTable == [i \in 1..MaxOrdinal |-> Pad3(i) \o Dash]
PrefixesDistinct ==
    \A i \in 1..MaxOrdinal : \A j \in (i + 1)..MaxOrdinal :
        PrefixTable[i] # PrefixTable[j]
ThreeDigits(i) ==
    <<DigitChar((i \div 100) % 10), DigitChar((i \div 10) % 10), DigitChar(i % 10)>>
PrefixesThreeDigits ==
    \A i \in 1..999 : PrefixTable[i] = ThreeDigits(i) \o <<" ", "-", " ">>

\* C17: in a collection the template of the item at position i is i written
\* with three digits, " - " and the title pattern (001, 002, 003, ...), and
\* distinct positions have distinct prefixes; for a single item it is the
\* title pattern alone.
C17_DestinationNaming ==
    /\ \A j \in 1..Len(dl_calls) :
          dl_calls[j].tmpl =
              IF dl_is_pl THEN ThreeDigits(j) \o <<" ", "-", " ">> \o TitleExt
              ELSE TitleExt
    /\ dl_is_pl =>
          \A j, k \in 1..Len(dl_calls) :
              j # k => SubSeq(dl_calls[j].tmpl, 1, 3) # SubSeq(dl_calls[k].tmpl, 1, 3)
    /\ PrefixesThreeDigits
    /\ PrefixesDistinct

\* C17 witness: a collection of three items got 001, 002 and 003.
C17_Witness ==
    /\ dl_is_pl
    /\ Len(dl_calls) = 3
    /\ SubSeq(dl_calls[1].tmpl, 1, 6) = <<"0", "0", "1", " ", "-", " ">>
    /\ SubSeq(dl_calls[2].tmpl, 1, 6) = <<"0", "0", "2", " ", "-", " ">>
    /\ SubSeq(dl_calls[3].tmpl, 1, 6) = <<"0", "0", "3", " ", "-", " ">>

\* C17 second witness: a single item got the title pattern alone.
C17_WitnessSingle ==
    /\ ~dl_is_pl
    /\ Len(dl_calls) = 1
    /\ dl_calls[1].tmpl = TitleExt

RECURSIVE IsSubseq(_, _)
\* s is t with some elements left out
IsSubseq(s, t) ==
    IF s = <<>> THEN TRUE
    ELSE IF t = <<>> THEN FALSE
    ELSE IF Head(s) = Head(t) THEN IsSubseq(Tail(s), Tail(t))
    ELSE IsSubseq(s, Tail(t))
FailedLocators == [k \in 1..Len(dl_fails) |-> dl_fails[k][1]]
\* the positions of the items whose fetch raised DownloadError, in order
FailedPositions ==
    LET f == SelectSeq(dl_calls, IsDownloadError)
    IN  [k \in 1..Len(f) |-> f[k].i]

-----------------------------------------------------------------------------
(* Properties of score_entry *)

HasFull(t) == Contains(t, W_full_album)
HasOfficial(t) == Contains(t, W_official)
HasMalus(t) == Contains(t, W_review) \/ Contains(t, W_cover)

\* the additive reference formula of the scoring contract
RefScore(entry, boostFull) ==
    LET t == Lower(OrEmpty(entry.title))
        base == IF entry.type = "playlist"
                THEN (IF entry.playlist_count = {} THEN 0
                      ELSE CHOOSE n \in entry.playlist_count : TRUE)
                ELSE (IF entry.view_count = {} THEN 0
                      ELSE (CHOOSE n \in entry.view_count : TRUE) \div 100000)
    IN  base
        + (IF StructMatch(t) THEN 300 ELSE 0)
        + (IF HasFull(t) THEN (IF boostFull THEN 400 ELSE 100) ELSE 0)
        + (IF HasOfficial(t) THEN 50 ELSE 0)
        - (IF HasMalus(t) THEN 100 ELSE 0)

\* the four conditions of a lower-cased title, and the delta of each
Conds(t) == <<StructMatch(t), HasFull(t), HasOfficial(t), HasMalus(t)>>
CondsOf == [t \in ScoreTitles |-> Conds(Lower(t))]
Delta(c, boostFull) ==
    <<300, IF boostFull THEN 400 ELSE 100, 50, -100>>[c]
\* t2 has condition c and t has not, and they agree on the other conditions
TogglesOnly(c, t, t2) ==
    /\ ~CondsOf[t][c]
    /\ CondsOf[t2][c]
    /\ \A d \in (1..4) \ {c} : CondsOf[t2][d] = CondsOf[t][d]

\* C10: the score returned by score_entry is the reference sum, and an entry
\* that differs from the scored one in exactly one condition of its title
\* scores exactly that condition's delta more.
C10_ScoreIsReferenceSum ==
    sc_out # {} =>
        LET e == CHOOSE x \in sc_entry : TRUE
            out == CHOOSE x \in sc_out : TRUE
        IN  /\ out[1] = RefScore(e, sc_boost)
            /\ \A t2 \in ScoreTitles : \A c \in 1..4 :
                  TogglesOnly(c, OrEmpty(e.title), t2)
                  => score_entry([e EXCEPT !.title = {t2}], sc_boost)[1]
                       = out[1] + Delta(c, sc_boost)

\* C10 witness: a video whose title has both "cover" and "review" was scored
\* with one malus only.
C10_Witness ==
    /\ sc_out = {<<-98, "video">>}
    /\ sc_entry = {[type |-> "url", title |-> {T_CoverReview}, playlist_count |-> {12},
                    view_count |-> {250000}, url |-> Id1]}

-----------------------------------------------------------------------------
(* Properties of search_best *)

\* the flags as the term defines them, tabulated over the terms
LiveTerms == {t \in Terms : Contains(Lower(t), W_live)}
FullTerms == {t \in Terms : Contains(Lower(t), W_full_album)}
TermHasLive == s_term \in LiveTerms
TermHasFull == s_term \in FullTerms
\* the result list of a message
MsgEntries(m) == IF m.status = "ok" THEN OrEmpty(m.entries) ELSE <<>>
\* element e of a result list is eligible for the term
Eligible(e) == e # {} /\ (TermHasLive \/ ~TitleHasLive[CHOOSE x \in e : TRUE])
\* the message holds at least one eligible record
Yields(m) == \E i \in 1..Len(MsgEntries(m)) : Eligible(MsgEntries(m)[i])
ScoreFor(e) == ScoreTable[CHOOSE x \in e : TRUE][TermHasFull][1]

\* C3 (as claimed): once the worker's message is on the queue of the current
\* variant, the control thread leaves its polling loop.
C3_WaitTerminates ==
    (s_pc = "spin" /\ Len(qs[s_qi]) > 0) ~> (s_pc # "spin")

\* The polling loop as written is never left: q.get() is not reached.
SpinNeverLeft == s_pc \in {"idle", "loop", "spin"} /\ Len(threads) <= 1

C7_EligibleIsReturned ==
    (\E j \in 1..Len(qs) : Len(qs[j]) > 0 /\ Yields(qs[j][1])) ~> (s_pc = "returned")

\* The code after q.get(): not-found is raised only when every variant was
\* handled and none held an eligible record, and a locator is returned only
\* when the last variant handled held one, whatever its score.
HandOverOutcome ==
    /\ s_pc = "raised" =>
          /\ Len(s_got) = Len(queries)
          /\ \A j \in 1..Len(s_got) : ~Yields(s_got[j])
    /\ s_pc = "returned" => Yields(s_got[Len(s_got)])
    /\ s_pc = "after" => (best_entry # {} <=> Yields(s_got[Len(s_got)]))

\* C8 (as claimed): after a provider error on the first of two variants the
\* second variant is started.
C8_ErrorAdvances ==
    (/\ Len(queries) = 2
     /\ Len(qs) >= 1
     /\ Len(qs[1]) > 0
     /\ qs[1][1].status = "err") ~> (Len(threads) = 2)

\* The code after q.get(): an "err" message is printed and the loop moves on
\* to the next variant.
HandOverError ==
    \A j \in 1..Len(s_got) :
        s_got[j].status = "err" =>
            /\ s_qi > j
            /\ \E n \in 1..Len(s_warn) : s_warn[n] = s_got[j].exc

-----------------------------------------------------------------------------
(* The end-to-end scenario *)

\* the scenario's term was searched and the message handled last held the
\* collection and the item, in either order
ScenarioHandled ==
    /\ s_term = Term_Scenario
    /\ Len(s_got) > 0
    /\ MsgEntries(s_got[Len(s_got)]) \in {<<{E_Collection}, {E_ReviewItem}>>,
                                         <<{E_ReviewItem}, {E_Collection}>>}
ScenarioScores(coll, item) ==
    /\ Len(cands) = 2
    /\ cands[1].entry = E_Collection
    /\ cands[1].score = coll
    /\ cands[2].entry = E_ReviewItem
    /\ cands[2].score = item
    /\ best_entry = {E_Collection}
    /\ best_score = coll

-----------------------------------------------------------------------------
(* Properties of sanitize *)

SanOut == CHOOSE o \in sz_out : TRUE
\* the text after replacement, strip() and rstrip(".")
Trimmed == RStrip(Strip(Sub(sz_in)), {"."})

\* C12 (as claimed): sanitize("") and sanitize("???") return "output" and
\* sanitize("A/B:C") returns "A_B_C".
C12_ExamplesAsClaimed ==
    sz_out # {} =>
        /\ sz_in \in {N_Empty, N_Questions} => SanOut = W_output
        /\ sz_in = N_Path => SanOut = <<"A", "_", "B", "_", "C">>

\* C12 (amended): sanitize("") returns "output", sanitize("???") returns
\* "___" and sanitize("A/B:C") returns "A_B_C".
C12_Examples ==
    sz_out # {} =>
        /\ sz_in = N_Empty => SanOut = W_output
        /\ sz_in = N_Questions => SanOut = <<"_", "_", "_">>
        /\ sz_in = N_Path => SanOut = <<"A", "_", "B", "_", "C">>

\* C12 witness: sanitize("???") has returned "___".
C12_Witness == sz_in = N_Questions /\ sz_out = {<<"_", "_", "_">>}

\* C13: sanitize returns, for every text, a text of 1 to 100 characters with
\* no character of INVALID_FS in it; it is "output" when the replaced and
\* trimmed text is empty and the first 100 characters of that text otherwise.
C13_SanitizeContract ==
    sz_out # {} =>
        /\ Len(SanOut) >= 1
        /\ Len(SanOut) <= 100
        /\ \A k \in 1..Len(SanOut) : SanOut[k] \notin INVALID_FS
        /\ Trimmed = <<>> => SanOut = W_output
        /\ Trimmed # <<>> =>
              /\ Len(SanOut) = (IF Len(Trimmed) > 100 THEN 100 ELSE Len(Trimmed))
              /\ \A k \in 1..Len(SanOut) : SanOut[k] = Trimmed[k]

\* C13 witness: a text of more than 100 characters with an unsafe character
\* past the filler was cut to 100 characters.
C13_Witness ==
    /\ Len(sz_in) > 100
    /\ \E k \in 1..Len(sz_in) : sz_in[k] \in INVALID_FS
    /\ sz_out # {}
    /\ Len(SanOut) = 100

\* C13 second witness: a text of dots and blanks only gave the fallback.
C13_WitnessFallback ==
    /\ sz_in = <<" ", ".", ".", " ">>
    /\ sz_out = {W_output}

-----------------------------------------------------------------------------
(* Properties of get_video_list *)

GvInfo == CHOOSE i \in gv_info : TRUE
GvOut == CHOOSE o \in gv_out : TRUE
IsMember(e) == e # {}
\* the members of the descriptor that are not falsy, in provider order
KeptMembers ==
    IF GvInfo.entries = {} THEN <<>>
    ELSE SelectSeq(CHOOSE es \in GvInfo.entries : TRUE, IsMember)
MemberId(e) == (CHOOSE m \in e : TRUE).url

\* C15: on a collection get_video_list returns one locator per non-empty
\* member, in provider order, each an absolute URL (the member's url if it
\* starts with "http", the watch URL of the id otherwise), so the k-th kept
\* member is the item at position k, the ordinal download_list gives it; on
\* a single item it returns the list of the original locator and False.
C15_Expansion ==
    (gv_out # {} /\ GvOut.status = "ok") =>
        IF GvInfo.type = {"playlist"}
        THEN /\ GvOut.is_playlist
             /\ Len(GvOut.urls) = Len(KeptMembers)
             /\ \A k \in 1..Len(KeptMembers) :
                   /\ StartsWith(GvOut.urls[k], W_http)
                   /\ GvOut.urls[k] \in {MemberId(KeptMembers[k]),
                                        U_watch \o MemberId(KeptMembers[k])}
                   /\ SubSeq(name_tmpl(k, TRUE), 1, 3) = Pad3(k)
        ELSE /\ ~GvOut.is_playlist
             /\ GvOut.urls = <<gv_url>>

\* C15 witness: a collection of a bare id, an empty member and an absolute
\* URL gave two locators, the first completed to a watch URL.
C15_Witness ==
    /\ gv_info = {Info({"playlist"}, {<<{[url |-> Id1]}, {}, {[url |-> AbsUrl]}>>},
                       {T_Plain})}
    /\ gv_out = {GvReturn(<<U_watch \o Id1, AbsUrl>>, TRUE, T_Plain)}

\* C15 second witness: a single item gave the list of its own locator.
C15_WitnessSingle ==
    /\ gv_info = {Info({"video"}, {}, {T_Plain})}
    /\ gv_out = {GvReturn(<<gv_url>>, FALSE, T_Plain)}

-----------------------------------------------------------------------------
(* Properties of cli *)

\* C14: a collection without a resolvable member makes get_video_list fail,
\* and download_list is not run for it.
C14_EmptyCollectionAborts ==
    /\ (gv_out # {} /\ GvInfo.ret = "info" /\ GvInfo.type = {"playlist"}
          /\ KeptMembers = <<>>) => GvOut.status = "raised"
    /\ ~(c_pc = "download" /\ dl_pc # "idle" /\ dl_is_pl /\ dl_urls = <<>>)

\* the run of download_list on the empty collection, up to its end
EmptyCollectionDownloaded ==
    /\ c_pc = "download"
    /\ gv_info \in {{InfoEmpty}, {InfoAllFalsy}}
    /\ dl_pc = "done"
    /\ dl_urls = <<>>

\* C20: the exit status is 0 only when no task failed.
C20_ExitCodeReflectsFailure ==
    (c_pc = "exit" /\ c_exit = {0}) => c_errors = <<>>

\* C19: once the tasks are gathered, every task is attempted and the loop
\* comes to its end.
C19_EveryTaskAttempted ==
    (c_pc = "loop") ~> (c_pc = "exit" /\ Len(c_started) = Len(c_tasks))

\* what holds of cli as written: the tasks attempted so far are the first
\* ones, once each, in gather order, and every report names its task
AttemptsInGatherOrder ==
    /\ c_started = [k \in 1..Len(c_started) |-> k]
    /\ Len(c_started) \in {c_ti - 1, c_ti}
    /\ Len(c_started) <= Len(c_tasks)
    /\ \A k \in 1..Len(c_errors) :
          \E t \in 1..Len(c_started) : c_tasks[t].val = c_errors[k].val

\* what holds of cli as written when no task is a search: every task is
\* attempted and the loop comes to its end, whatever failed on the way
DirectTasksAllAttempted ==
    (c_pc = "loop" /\ \A t \in 1..Len(c_tasks) : c_tasks[t].kind = "url")
        ~> (c_pc = "exit" /\ Len(c_started) = Len(c_tasks))

-----------------------------------------------------------------------------
(* Properties of gather_tasks *)

GOut == CHOOSE o \in g_out : TRUE
\* the tasks of a file as claimed: blank lines and lines starting with "#"
\* give nothing
RECURSIVE ClaimedLineTasks(_)
ClaimedLineTasks(lines) ==
    IF lines = <<>> THEN <<>>
    ELSE LET l == Strip(Head(lines))
         IN  (IF l = <<>> \/ l[1] = "#" THEN <<>>
              ELSE <<[kind |-> IF StartsWith(l, W_http) THEN "url" ELSE "search",
                      val |-> l]>>)
             \o ClaimedLineTasks(Tail(lines))
\* the tasks gathered from the files among the inputs
RECURSIVE FileTasksOf(_, _)
FileTasksOf(tasks, inputs) ==
    IF inputs = <<>> THEN <<>>
    ELSE LET inp == Head(inputs)
             n == IF inp.isfile THEN Len(LineTasks(inp.lines)) ELSE 1
         IN  (IF inp.isfile THEN <<SubSeq(tasks, 1, n)>> ELSE <<>>)
             \o FileTasksOf(SubSeq(tasks, n + 1, Len(tasks)), Tail(inputs))
FilesOf(inputs) == SelectSeq(inputs, LAMBDA inp : inp.isfile)

\* C21: the tasks gathered from an input file are one direct-locator task per
\* line starting with "http" and one search task per other line that is
\* neither blank nor starting with "#", in line order.
C21_FileParsing ==
    g_out # {} =>
        LET got == FileTasksOf(GOut, g_inputs)
            files == FilesOf(g_inputs)
        IN  \A k \in 1..Len(files) : got[k] = ClaimedLineTasks(files[k].lines)

\* what holds of gather_tasks as written: the same without the "#" rule
FileParsingAsWritten ==
    g_out # {} =>
        /\ \A k \in 1..Len(GOut) :
              /\ GOut[k].val # <<>>
              /\ (k < Len(GOut) \/ g_search = {}) =>
                    (GOut[k].kind = "url" <=> StartsWith(GOut[k].val, W_http))
        /\ LET got == FileTasksOf(GOut, g_inputs)
               files == FilesOf(g_inputs)
           IN  \A k \in 1..Len(files) :
                  got[k] = SelectSeq([j \in 1..Len(files[k].lines) |->
                                         Task(Strip(files[k].lines[j]))],
                                     LAMBDA t : t.val # <<>>)

\* a file of one comment line gave one search task
CommentBecameTask ==
    /\ g_inputs = <<Input(TRUE, F_name, <<L_Comment>>)>>
    /\ g_search = {}
    /\ g_out = {<<[kind |-> "search", val |-> <<"#", " ">> \o Term_Plain]>>}

-----------------------------------------------------------------------------
(* The output directory *)

\* outdir is args.output if given, else sanitize(title) for a collection,
\* else "downloads"; a run of download_list has made that directory, and no
\* fetch happens before it
OutDirResolved ==
    /\ c_pc = "download" =>
          /\ c_outdir = (IF c_output # {} THEN CHOOSE d \in c_output : TRUE
                         ELSE IF GvOut.is_playlist THEN sanitize(GvOut.title)
                         ELSE <<"d", "o", "w", "n", "l", "o", "a", "d", "s">>)
          /\ dl_pc # "idle" => made_dirs # <<>> /\ made_dirs[Len(made_dirs)] = c_outdir
    /\ dl_calls # <<>> => made_dirs # <<>>
    /\ Len(made_dirs) <= Len(c_started)
    /\ (c_pc = "download" /\ dl_pc = "idle") => Len(made_dirs) < Len(c_started)

\* the call of download_list makes one directory and no other step makes any
OneDirectoryPerRun ==
    IF dl_pc = "idle" /\ dl_pc' = "loop"
    THEN made_dirs' = Append(made_dirs, c_outdir) /\ dl_calls' = <<>>
    ELSE made_dirs' = made_dirs

\* C22: outdir is args.output if given, else sanitize(title) for a collection,
\* else "downloads"; every run of download_list makes that directory, once,
\* before its first fetch, and nothing else makes a directory.
C22_OutputDirectory == []OutDirResolved /\ [][OneDirectoryPerRun]_vars

\* C22 witness: without --output, a collection titled "A/B:C." is fetched
\* into "A_B_C", made before the first fetch.
C22_Witness ==
    /\ c_pc = "download"
    /\ c_output = {}
    /\ gv_info = {InfoThree}
    /\ dl_pc = "fetching"
    /\ Len(dl_calls) = 1
    /\ made_dirs = <<<<"A", "_", "B", "_", "C">>>>

\* C22 second witness: the second task of a run, a single item, is fetched
\* into "downloads" after the first, a collection, was fetched into the
\* directory of its title
C22_WitnessDefault ==
    /\ c_pc = "download"
    /\ c_output = {}
    /\ gv_info = {InfoSingle}
    /\ dl_pc = "done"
    /\ made_dirs = <<Band \o Sp \o Album, W_downloads>>

-----------------------------------------------------------------------------
(* The pipeline of a task *)

\* C23: search_best runs only for a task whose text does not start with
\* "http", get_video_list runs on the task's own text or on what search_best
\* returned, and download_list runs only after get_video_list returned.
C23_PipelineOrder ==
    /\ c_pc = "search" => ~StartsWith(CurTask.val, W_http)
    /\ s_pc # "idle" => c_pc = "search"
    /\ c_pc = "expand" => (CurTask.kind = "url" /\ c_url = CurTask.val)
    /\ dl_pc # "idle" =>
          /\ c_pc = "download"
          /\ gv_out # {}
          /\ GvOut.status = "ok"
          /\ dl_urls = GvOut.urls

\* what holds of cli as written: the same, with the kind that gather_tasks
\* gave the task in place of the start of its text
PipelineOrderByKind ==
    /\ c_pc = "search" => CurTask.kind = "search"
    /\ s_pc # "idle" => c_pc = "search"
    /\ c_pc = "expand" => (CurTask.kind = "url" /\ c_url = CurTask.val)
    /\ dl_pc # "idle" =>
          /\ c_pc = "download"
          /\ gv_out # {}
          /\ GvOut.status = "ok"
          /\ dl_urls = GvOut.urls

\* the provider was asked to search for a locator given with --search
LocatorSearched ==
    /\ c_pc = "search"
    /\ CurTask.val = AbsUrl
    /\ provider_calls # <<>>

-----------------------------------------------------------------------------
(* The worker and the control thread; the flag; the returned locator *)

\* the reference score, tabulated over the entries
RefTable == [e \in AllEntries |-> [b \in BOOLEAN |-> RefScore(e, b)]]

\* C24 (as claimed): every variant started has its message put on its queue
\* by its worker and taken from it by the control thread.
C24_MessageConsumed ==
    \A j \in 1..2 : (Len(threads) >= j) ~> (Len(s_got) >= j /\ qs[j] = <<>>)

\* what holds of the code, the spinner loop run as written or left out: one
\* worker and one fresh queue per variant started, at most one message on a
\* queue, put there by the variant's own worker, at most one message taken
\* per variant, and a variant started only when the one before was handled
ProtocolSafety ==
    /\ Len(qs) = Len(threads)
    /\ Len(threads) <= Len(queries)
    /\ Len(s_got) <= Len(threads)
    /\ Len(threads) <= Len(s_got) + 1
    /\ Len(provider_calls) = Cardinality({j \in 1..Len(threads) :
                                            threads[j].state = "finished"})
    /\ \A j \in 1..Len(qs) :
          /\ Len(qs[j]) <= 1
          /\ threads[j].state = "running" => (qs[j] = <<>> /\ Len(s_got) < j)
          /\ threads[j].state = "finished" =>
                Len(qs[j]) + (IF Len(s_got) >= j THEN 1 ELSE 0) = 1

BestUrl == (CHOOSE e \in best_entry : TRUE).url
SRet == CHOOSE u \in s_ret : TRUE

C26_WitnessItem ==
    /\ s_pc = "returned"
    /\ best_entry = {E_Video}
    /\ s_ret = {U_watch \o Id1}

\* C26 third witness: an absolute locator won and was returned as it is.
C26_WitnessAbsolute ==
    /\ s_pc = "returned"
    /\ best_entry = {E_Playlist}
    /\ s_ret = {AbsUrl}

-----------------------------------------------------------------------------
(* Properties of ProgressBar *)

LastTick == CHOOSE d \in pb_last : TRUE
NewTick == CHOOSE d \in pb_last' : TRUE

\* one call of hook, as the claim has it
HookStep ==
    /\ (pb_bar = {} /\ pb_bar' # {}) =>
          /\ NewTick.status = "downloading"
          /\ \/ NewTick.total_bytes \notin {{}, {0}}
             \/ NewTick.total_bytes_estimate \notin {{}, {0}}
          /\ (CHOOSE b \in pb_bar' : TRUE).total \in
                 (NewTick.total_bytes \cup NewTick.total_bytes_estimate) \ {0}
    /\ (pb_bar # {} /\ pb_bar' # {}) =>
          (CHOOSE b \in pb_bar' : TRUE).total = TheBar.total
    /\ (NewTick.status = "finished" /\ pb_bar # {}) =>
          /\ pb_bar' = {}
          /\ pb_closed' = Append(pb_closed, [total |-> TheBar.total, n |-> TheBar.total])
    /\ (NewTick.status = "finished" /\ pb_bar = {}) =>
          /\ pb_bar' = {}
          /\ pb_closed' = pb_closed
    /\ NewTick.status # "finished" => pb_closed' = pb_closed

\* C27: a bar is made only by a "downloading" tick with a total that is
\* known and not 0; while there is a bar its total does not change;
\* "finished" with a bar sets the amount shown to the total, closes the bar
\* and leaves the tracker without a bar; "finished" without a bar changes
\* nothing.
C27_ProgressTracker == [][HookStep]_vars

\* C27 witness: a bar of total 100 was closed showing 100 by a "finished"
\* tick that reported 50, and the tracker has no bar.
C27_Witness ==
    /\ pb_bar = {}
    /\ pb_count = 3
    /\ pb_last # {}
    /\ LastTick.status = "finished"
    /\ LastTick.downloaded_bytes = 50
    /\ pb_closed = <<[total |-> 100, n |-> 100]>>

-----------------------------------------------------------------------------
(* The trimming of sanitize *)

\* C28 (as claimed): the text sanitize returns begins with no whitespace and
\* ends with neither whitespace nor a dot.
C28_Trimmed ==
    sz_out # {} =>
        /\ SanOut[1] \notin Whitespace
        /\ SanOut[Len(SanOut)] \notin Whitespace \cup {"."}

\* what holds of sanitize as written: no leading whitespace; a trailing
\* blank or dot is left only where rstrip(".") or the cut at 100 uncovered it
TrimmedAsWritten ==
    sz_out # {} =>
        /\ SanOut[1] \notin Whitespace
        /\ SanOut[Len(SanOut)] \in Whitespace =>
              \/ Len(Trimmed) > 100
              \/ Strip(Sub(sz_in))[Len(Strip(Sub(sz_in)))] = "."
        /\ SanOut[Len(SanOut)] = "." => Len(Trimmed) > 100

\* sanitize("a .") has returned "a "
TrailingBlankLeft == sz_in = <<"a", " ", ".">> /\ sz_out = {<<"a", " ">>}

\* C29 (as claimed): sanitize applied to what sanitize returned gives the
\* same text.
C29_Idempotent == sz_out # {} => sanitize(SanOut) = SanOut

\* what holds of sanitize as written: a third application changes nothing
TwiceIsEnough ==
    sz_out # {} => sanitize(sanitize(sanitize(SanOut))) = sanitize(sanitize(SanOut))

\* a result that is trimmed is left alone by a second application: the only
\* results sanitize changes are those with a trailing blank or dot
IdempotentWhenTrimmed ==
    (sz_out # {} /\ SanOut[Len(SanOut)] \notin Whitespace \cup {"."})
        => sanitize(SanOut) = SanOut

-----------------------------------------------------------------------------
(* Properties of get_albums *)

AlOut == CHOOSE o \in al_out : TRUE
\* the albums of the result with the lower-cased title low
AlbumsTitled(low) == {k \in 1..Len(AlOut) : Lower(AlOut[k].title) = low}
\* the lower-cased titles that have a release group that is not live
StudioTitles == {Lower(al_rgs[k].title) : k \in {j \in 1..Len(al_rgs) : ~IsLive(al_rgs[j])}}

\* no two albums of the result have the same lower-cased title
NoDuplicateTitle ==
    al_out # {} =>
        \A j, k \in 1..Len(AlOut) :
            j # k => Lower(AlOut[j].title) # Lower(AlOut[k].title)

\* C30 (as claimed): no two albums of the result have the same lower-cased
\* title, and with include_live = False the result has exactly one album for
\* each lower-cased title that has a release group that is not live.
C30_Deduplication ==
    /\ NoDuplicateTitle
    /\ (al_out # {} /\ ~al_live) =>
          \A low \in StudioTitles : Cardinality(AlbumsTitled(low)) = 1

\* the live release group of a title was listed before the other one, and
\* the result has no album
StudioAlbumLost ==
    /\ al_rgs = <<RG(A_X, <<Live>>, D_1999, <<"r", "X">>), RG(A_x, <<>>, <<>>, <<"r", "x">>)>>
    /\ ~al_live
    /\ al_out = {<<>>}

====
